---- MODULE Spec2Model ----
(***************************************************************************)
(* Multi-document tree merge and resolution engine of bid_agents:          *)
(* DocumentSet model, the document-set tools, TreeMerger and NodeResolver. *)
(*                                                                         *)
(* Strings (document ids, node ids, names, titles) are sequences of        *)
(* one-character strings, so that formatting (f"doc_{d}_{n}") is           *)
(* concatenation and parsing (str.split, str.startswith) works on the      *)
(* characters.  Non-ASCII literals of the source are written with ASCII    *)
(* stand-ins, named where they are defined.                                *)
(***************************************************************************)
EXTENDS Integers, Sequences, FiniteSets, TLC

VARIABLES
    document_set,        \* state.document_set: the DocumentSet, or NoSet for None
    document_set_id,     \* state.document_set_id: 0 for None
    tender_document_id,  \* state.tender_document_id: <<>> for None / ""
    tender_tree,         \* state.tender_tree: NoTree for None
    last,                \* the last tool call: its name, its document argument, its return
    out                  \* what the last get_merged_tree call returned (NoOutput otherwise)

vars == <<document_set, document_set_id, tender_document_id, tender_tree, last, out>>

----------------------------------------------------------------------------
(* Bounds *)

\* most items a DocumentSet holds in the model (add_to_document_set is cut off there)
MaxItems == 3
\* longest auxiliary_docs array given to create_document_set
MaxAux == 1
\* number of distinct DocumentSet identifiers (uuid4 values) the model draws from
NumSetIds == 2
\* auxiliary documents of the sets the query tools are run on
MaxQueryAux == 2

----------------------------------------------------------------------------
(* Strings *)

EmptyStr == <<>>
Underscore == "_"
S_doc_ == <<"d", "o", "c", "_">>
S_auxiliary_docs == <<"a", "u", "x", "i", "l", "i", "a", "r", "y", "_", "d", "o", "c", "s">>
S_root == <<"r", "o", "o", "t">>

\* s[:n]
Take(s, n) == SubSeq(s, 1, IF Len(s) < n THEN Len(s) ELSE n)

\* s.startswith(p)
StartsWith(s, p) == Len(s) >= Len(p) /\ SubSeq(s, 1, Len(p)) = p

\* position of the first c in s at or after position from, 0 if there is none
RECURSIVE FindFrom(_, _, _)
FindFrom(s, c, from) ==
    IF from > Len(s) THEN 0
    ELSE IF s[from] = c THEN from
    ELSE FindFrom(s, c, from + 1)

\* s.split("_", 2): at most two splits, so at most three parts
Split2(s) ==
    LET i == FindFrom(s, Underscore, 1) IN
    IF i = 0 THEN <<s>>
    ELSE LET j == FindFrom(s, Underscore, i + 1) IN
         IF j = 0 THEN <<SubSeq(s, 1, i - 1), SubSeq(s, i + 1, Len(s))>>
         ELSE <<SubSeq(s, 1, i - 1), SubSeq(s, i + 1, j - 1), SubSeq(s, j + 1, Len(s))>>

----------------------------------------------------------------------------
(* Document trees (external input) *)

\* str.lower() on the letters the documents use
LowerChar(c) ==
    CASE c = "A" -> "a" [] c = "B" -> "b" [] c = "G" -> "g" [] c = "R" -> "r"
      [] c = "S" -> "s" [] c = "T" -> "t" [] c = "X" -> "x"
      [] OTHER -> c
Lower(str) == [i \in 1..Len(str) |-> LowerChar(str[i])]

\* p in s, for strings
IsSubstring(p, str) ==
    \E i \in 0..(Len(str) - Len(p)) : SubSeq(str, i + 1, i + Len(p)) = p

\* str.split(","): the pieces between the commas
RECURSIVE SplitComma(_)
SplitComma(str) ==
    LET i == FindFrom(str, ",", 1) IN
    IF i = 0 THEN <<str>>
    ELSE <<SubSeq(str, 1, i - 1)>> \o SplitComma(SubSeq(str, i + 1, Len(str)))

\* str.strip(): without the blanks at either end
RECURSIVE Strip(_)
Strip(str) ==
    IF str # <<>> /\ Head(str) = " " THEN Strip(Tail(str))
    ELSE IF str # <<>> /\ str[Len(str)] = " " THEN Strip(SubSeq(str, 1, Len(str) - 1))
    ELSE str

\* a falsy tree: None or {}
NoTree == [absent |-> TRUE]

IsPopulated(tree) == tree # NoTree

Node(id, title, children) ==
    [id |-> id, title |-> title, summary |-> EmptyStr, children |-> children]

\* the document ids the model draws from; D_ab contains the separator of the
\* namespacing scheme
D_t == <<"t">>
D_a == <<"a">>
D_ab == <<"a", "_", "b">>
DocIds == {D_t, D_a, D_ab}

\* the tree the document repository holds for each document
Tree_t ==
    Node(<<"r">>, <<"T">>,
         << Node(<<"c", "1">>, <<"A">>, << Node(<<"g">>, <<"G">>, <<>>) >>),
            Node(<<"c", "2">>, <<"B">>, <<>>) >>)
Tree_a ==
    Node(<<"c", "1">>, <<"R">>, << Node(<<"b", "_", "c">>, <<"A">>, <<>>) >>)
Tree_ab ==
    Node(<<"c">>, <<"S">>, << Node(S_auxiliary_docs, <<"X">>, <<>>) >>)

RepoTree(doc_id) ==
    IF doc_id = D_t THEN Tree_t
    ELSE IF doc_id = D_a THEN Tree_a
    ELSE Tree_ab

\* documents the repository may answer for with an empty tree (not parsed yet)
UnparsedDocs == {D_a}

\* outcomes of api_client.get_document_tree(doc_id): it raises, it answers
\* with an empty tree, it answers with the document's tree
FetchOutcomes(doc_id) ==
    IF doc_id \in UnparsedDocs THEN {"fail", "empty", "ok"} ELSE {"fail", "ok"}

\* tree_data.get("tree", tree_data)
FetchedTree(doc_id, outcome) == IF outcome = "ok" THEN RepoTree(doc_id) ELSE NoTree

----------------------------------------------------------------------------
(* DocumentSet model *)

Roles == {"primary", "auxiliary", "reference"}

NoSet == [present |-> FALSE, id |-> 0, name |-> EmptyStr, items |-> <<>>]

DocumentSetItem(document_id, name, doc_type, role, order, tree) ==
    [document_id |-> document_id, name |-> name, doc_type |-> doc_type,
     role |-> role, order |-> order, tree |-> tree]

\* DocumentSet.__len__
SetLen(ds) == Len(ds.items)

\* bool(state.document_set): None is falsy, and so is a DocumentSet of length 0
Truthy(ds) == ds.present /\ SetLen(ds) > 0

\* BidProjectState.is_using_document_set
is_using_document_set == document_set.present

is_primary(item) == item.role = "primary"

\* index of the first item satisfying a test, 0 if there is none
FirstPrimaryIndex(items) ==
    IF \E i \in 1..Len(items) : is_primary(items[i])
    THEN CHOOSE i \in 1..Len(items) :
            /\ is_primary(items[i])
            /\ \A j \in 1..(i - 1) : ~is_primary(items[j])
    ELSE 0

\* get_primary_item falling back to the last item of the list
GetPrimaryIndexLastFallback(items) ==
    IF FirstPrimaryIndex(items) # 0 THEN FirstPrimaryIndex(items) ELSE Len(items)

\* DocumentSet.get_primary_item, as an index into items: 0 for None
get_primary_index(items) ==
    IF FirstPrimaryIndex(items) # 0 THEN FirstPrimaryIndex(items)
    ELSE IF Len(items) > 0 THEN 1
    ELSE 0

IndexOfDocId(items, document_id) ==
    IF \E i \in 1..Len(items) : items[i].document_id = document_id
    THEN CHOOSE i \in 1..Len(items) :
            /\ items[i].document_id = document_id
            /\ \A j \in 1..(i - 1) : items[j].document_id # document_id
    ELSE 0

\* DocumentSet.__contains__
Contains(items, document_id) == \E i \in 1..Len(items) : items[i].document_id = document_id

\* DocumentSet.get_items_by_role
get_items_by_role(items, role) == LET T(it) == it.role = role IN SelectSeq(items, T)

\* keys are pairs compared as Python tuples
KeyLess(k1, k2) == k1[1] < k2[1] \/ (k1[1] = k2[1] /\ k1[2] < k2[2])

\* a sort that puts, of two items with equal keys, the later one first
SortTiesReversed(items, keys) ==
    LET n == Len(items)
        Rank(i) == 1 + Cardinality({j \in 1..n :
                        KeyLess(keys[j], keys[i]) \/ (keys[j] = keys[i] /\ j > i)})
    IN [p \in 1..n |-> items[CHOOSE i \in 1..n : Rank(i) = p]]

\* list.sort / sorted: a stable sort of items by the parallel sequence of keys
StableSort(items, keys) ==
    LET n == Len(items)
        Rank(i) == 1 + Cardinality({j \in 1..n :
                        KeyLess(keys[j], keys[i]) \/ (keys[j] = keys[i] /\ j < i)})
    IN [p \in 1..n |-> items[CHOOSE i \in 1..n : Rank(i) = p]]

OrderKeys(items) == [i \in 1..Len(items) |-> <<0, items[i].order>>]

\* DocumentSet.get_sorted_items
get_sorted_items(items) == StableSort(items, OrderKeys(items))

\* the while loop of add_item: the first order >= the requested one that is free
RECURSIVE FreeOrder(_, _)
FreeOrder(existing_orders, order) ==
    IF order \in existing_orders THEN FreeOrder(existing_orders, order + 1) ELSE order

\* DocumentSet.add_item
add_item(items, item) ==
    LET existing_orders == {items[i].order : i \in 1..Len(items)}
        placed == [item EXCEPT !.order = FreeOrder(existing_orders, item.order)]
        appended == Append(items, placed)
    IN StableSort(appended, OrderKeys(appended))

\* DocumentSet.remove_item: pops the first item with that id
remove_item(items, document_id) ==
    LET i == IndexOfDocId(items, document_id) IN
    IF i = 0 THEN items
    ELSE SubSeq(items, 1, i - 1) \o SubSeq(items, i + 1, Len(items))

----------------------------------------------------------------------------
(* TreeMerger: src/bid_agents/services/document_set_merger.py *)

\* f"doc_{doc_id}_{original_id}"
NamespacedId(doc_id, original_id) == S_doc_ \o doc_id \o <<Underscore>> \o original_id

\* f"[{name}] {title}"
PrefixedTitle(name, title) == <<"[">> \o name \o <<"]", " ">> \o title

\* "辅助文档"
S_aux_title == <<"A", "u", "x">>
\* f"共{n}个辅助文档"
AuxSummary(n) == <<"#", n>>
\* f"文档集包含{n}个文档"
FlatSummary(n) == <<"%", n>>

RECURSIVE _process_tree_node(_, _, _)

\* _process_tree_node passing is_primary=True down to the children
ProcessTreeNodeRootOnly(node, doc_id, is_primary_doc) ==
    [id |-> IF is_primary_doc THEN node.id ELSE NamespacedId(doc_id, node.id),
     title |-> node.title,
     summary |-> node.summary,
     children |-> [k \in 1..Len(node.children) |->
                     _process_tree_node(node.children[k], doc_id, TRUE)]]

\* TreeMerger._process_tree_node (the page and line fields, copied as they
\* are, are left out of the nodes of the model)
_process_tree_node(node, doc_id, is_primary_doc) ==
    LET original_id == node.id
        new_id == IF is_primary_doc THEN original_id ELSE NamespacedId(doc_id, original_id)
    IN [id |-> new_id,
        title |-> node.title,
        summary |-> node.summary,
        children |-> [k \in 1..Len(node.children) |->
                        _process_tree_node(node.children[k], doc_id, is_primary_doc)]]

\* the subtree merge() and _create_flat_structure() make of an item: processed
\* as a non-primary document, the title of its root prefixed with the name
PrefixedSubtree(item) ==
    LET node == _process_tree_node(item.tree, item.document_id, FALSE)
    IN [node EXCEPT !.title = PrefixedTitle(item.name, node.title)]

HasTree(item) == IsPopulated(item.tree)

\* TreeMerger._create_flat_structure
_create_flat_structure(ds) ==
    LET with_tree == SelectSeq(get_sorted_items(ds.items), HasTree)
        children == [k \in 1..Len(with_tree) |-> PrefixedSubtree(with_tree[k])]
    IN [id |-> S_root, title |-> ds.name, summary |-> FlatSummary(Len(children)),
        children |-> children]

\* the 'auxiliary_docs' branch merge() builds, lines 48-63
AuxBranch(auxiliaries) ==
    LET with_tree == SelectSeq(auxiliaries, HasTree)
    IN [id |-> S_auxiliary_docs, title |-> S_aux_title,
        summary |-> AuxSummary(Len(auxiliaries)),
        children |-> [k \in 1..Len(with_tree) |-> PrefixedSubtree(with_tree[k])]]

\* TreeMerger.merge: the tree it returns
merge(ds) ==
    LET p == get_primary_index(ds.items) IN
    IF p = 0 \/ ~HasTree(ds.items[p]) THEN _create_flat_structure(ds)
    ELSE LET merged_root == _process_tree_node(ds.items[p].tree, ds.items[p].document_id, TRUE)
             auxiliaries == get_items_by_role(ds.items, "auxiliary")
             aux_branch == AuxBranch(auxiliaries)
         IN IF auxiliaries # <<>> /\ aux_branch.children # <<>>
            THEN [merged_root EXCEPT !.children = Append(@, aux_branch)]
            ELSE merged_root

\* _process_tree_node changing the node it is given and returning it
ProcessedInPlace == TRUE

\* Whether the dict _process_tree_node returns is the node it was given: it
\* is not, the function builds a new dict and a new children list (lines
\* 101-114), so what merge() then writes into its result (the prefixed title,
\* the appended branch) never reaches the trees of the DocumentSet.
ProcessedIsArgument == FALSE

\* the item's tree after merge() prefixed the title of the node made of it
TitleWritten(item) ==
    IF HasTree(item) /\ ProcessedIsArgument
    THEN [item EXCEPT !.tree.title = PrefixedTitle(item.name, @)]
    ELSE item

\* TreeMerger.merge: the DocumentSet it leaves behind
merge_effect(ds) ==
    LET p == get_primary_index(ds.items) IN
    IF p = 0 \/ ~HasTree(ds.items[p])
    THEN [ds EXCEPT !.items = [k \in 1..Len(ds.items) |-> TitleWritten(ds.items[k])]]
    ELSE LET written == [k \in 1..Len(ds.items) |->
                            IF ds.items[k].role = "auxiliary"
                            THEN TitleWritten(ds.items[k]) ELSE ds.items[k]]
         IN IF ProcessedIsArgument
            THEN \* merged_root is the primary's own tree: the branch is appended to it
                 [ds EXCEPT !.items = [written EXCEPT ![p].tree = merge(ds)]]
            ELSE [ds EXCEPT !.items = written]

\* TreeMerger._flatten_node: the lines of the text, each a string
RECURSIVE _flatten_node(_, _)
RECURSIVE FlattenChildren(_, _)
Indent(depth) == [k \in 1..(2 * depth) |-> " "]
_flatten_node(node, depth) ==
    << Indent(depth) \o node.title >>
    \o (IF node.summary # EmptyStr
        THEN << Indent(depth) \o <<" ", " ", "S", ":", " ">> \o node.summary >>
        ELSE <<>>)
    \o FlattenChildren(node.children, depth + 1)
FlattenChildren(children, depth) ==
    IF children = <<>> THEN <<>>
    ELSE _flatten_node(Head(children), depth) \o FlattenChildren(Tail(children), depth)

\* TreeMerger.flatten_to_text
flatten_to_text(ds) == _flatten_node(merge(ds), 0)

----------------------------------------------------------------------------
(* NodeResolver: src/bid_agents/services/document_set_merger.py *)

\* the nodes of a tree, parents ahead of their children, children in order
RECURSIVE TreeNodes(_)
RECURSIVE ForestNodes(_)
TreeNodes(node) == <<node>> \o ForestNodes(node.children)
ForestNodes(children) ==
    IF children = <<>> THEN <<>>
    ELSE TreeNodes(Head(children)) \o ForestNodes(Tail(children))

\* NodeResolver._index_tree: the assignments to _node_index it makes, in order
_index_tree(tree, doc_id) ==
    LET nodes == TreeNodes(tree)
        Named(n) == n.id # EmptyStr
        named == SelectSeq(nodes, Named)
    IN [k \in 1..Len(named) |-> [key |-> named[k].id, doc_id |-> doc_id, node |-> named[k]]]

\* NodeResolver._build_index: the assignments over the items, in the order of
\* document_set.items; a later assignment to a key replaces an earlier one
RECURSIVE _build_index(_)
_build_index(items) ==
    IF items = <<>> THEN <<>>
    ELSE (IF HasTree(Head(items))
          THEN _index_tree(Head(items).tree, Head(items).document_id)
          ELSE <<>>)
         \o _build_index(Tail(items))

\* node_id in self._node_index
InIndex(assignments, node_id) ==
    \E k \in 1..Len(assignments) : assignments[k].key = node_id

\* a dict in which the first assignment to a key is the one that stays
IndexAtFirst(assignments, node_id) ==
    LET k == CHOOSE k \in 1..Len(assignments) :
                /\ assignments[k].key = node_id
                /\ \A j \in 1..(k - 1) : assignments[j].key # node_id
    IN assignments[k]

\* self._node_index[node_id]: what the last assignment to the key stored
IndexAt(assignments, node_id) ==
    LET k == CHOOSE k \in 1..Len(assignments) :
                /\ assignments[k].key = node_id
                /\ \A j \in (k + 1)..Len(assignments) : assignments[j].key # node_id
    IN assignments[k]

\* self._node_index.items(): the keys in the order of their first assignment,
\* each with what the last assignment to it stored
IndexItems(assignments) ==
    LET positions == [k \in 1..Len(assignments) |-> k]
        First(k) == \A j \in 1..(k - 1) : assignments[j].key # assignments[k].key
        firsts == SelectSeq(positions, First)
    IN [k \in 1..Len(firsts) |-> IndexAt(assignments, assignments[firsts[k]].key)]

\* NodeResolver.find_nodes_by_title, for a resolver built over the items
find_nodes_by_title(items, title) ==
    LET Match(e) == IsSubstring(Lower(title), Lower(e.node.title))
    IN SelectSeq(IndexItems(_build_index(items)), Match)

\* NodeResolver.get_document_nodes, for a resolver built over the items
get_document_nodes(items, doc_id) ==
    LET Stored(e) == e.doc_id = doc_id
        entries == SelectSeq(IndexItems(_build_index(items)), Stored)
    IN [k \in 1..Len(entries) |-> entries[k].node]

NotFound == [found |-> FALSE, doc_id |-> EmptyStr, node |-> NoTree]
Found(doc_id, node) == [found |-> TRUE, doc_id |-> doc_id, node |-> node]

\* resolve_node taking whatever the index holds for the original id, without
\* comparing the recorded document id with the one in the identifier
ResolveNodeNoDocCheck(items, node_id) ==
    LET index == _build_index(items) IN
    IF InIndex(index, node_id)
    THEN Found(IndexAt(index, node_id).doc_id, IndexAt(index, node_id).node)
    ELSE IF StartsWith(node_id, S_doc_) /\ Len(Split2(node_id)) >= 3
            /\ InIndex(index, Split2(node_id)[3])
    THEN Found(Split2(node_id)[2], IndexAt(index, Split2(node_id)[3]).node)
    ELSE NotFound

\* NodeResolver.resolve_node, for a resolver built over the items
resolve_node(items, node_id) ==
    LET index == _build_index(items) IN
    IF InIndex(index, node_id)
    THEN Found(IndexAt(index, node_id).doc_id, IndexAt(index, node_id).node)
    ELSE IF StartsWith(node_id, S_doc_)
    THEN LET parts == Split2(node_id) IN
         IF Len(parts) >= 3
         THEN LET doc_id == parts[2]
                  original_id == parts[3]
              IN IF InIndex(index, original_id)
                    /\ IndexAt(index, original_id).doc_id = doc_id
                 THEN Found(doc_id, IndexAt(index, original_id).node)
                 ELSE NotFound
         ELSE NotFound
    ELSE NotFound

----------------------------------------------------------------------------
(* Names the tools give to items; the source's literals are Chinese text *)

\* "招标文件（主文档）"
PrimaryItemName == <<"Z">>
\* the display name the caller passes for a document (the "name" of an
\* auxiliary_docs entry, the name argument of add_to_document_set)
DisplayName(document_id) == <<"N", ":">> \o document_id
\* aux.get("name", f"辅助文档{i+1}")
AuxItemName(name, i) == IF name # EmptyStr THEN name ELSE <<"F", i + 1>>
\* name or f"文档_{document_id[:8]}"
AddedItemName(name, document_id) ==
    IF name # EmptyStr THEN name ELSE <<"W", "_">> \o Take(document_id, 8)
\* set_name or f"{state.project_title or '未命名项目'} 文档集"
MigratedSetName == <<"U">>

\* f"ds_{uuid.uuid4().hex[:12]}": an identifier the session has not in use
NewSetId == (document_set_id % NumSetIds) + 1

\* no tree or text was returned
NoOutput == [format |-> "", value |-> <<>>]

\* what the model keeps of the last call: the tool and its document argument
\* when it succeeded, the kind of answer whenever it did not
Return(op, doc, ret) ==
    IF ret = "ok" THEN [op |-> op, doc |-> doc, ret |-> ret]
    ELSE [op |-> "", doc |-> EmptyStr, ret |-> ret]

----------------------------------------------------------------------------
(* Tools: src/bid_agents/tools/document_set_tools.py *)

\* the items create_document_set builds: the primary at order 0, then the
\* auxiliary documents at order i + 1 (enumerate index i from 0)
CreateItems(primary_doc_id, aux_list, outcomes) ==
    << DocumentSetItem(primary_doc_id, PrimaryItemName, "tender", "primary", 0,
                       FetchedTree(primary_doc_id, outcomes[1])) >>
    \o [k \in 1..Len(aux_list) |->
          DocumentSetItem(aux_list[k], AuxItemName(DisplayName(aux_list[k]), k - 1),
                          "reference", "auxiliary", k,
                          FetchedTree(aux_list[k], outcomes[k + 1]))]

\* the early returns of create_document_set ahead of the first fetch
CreateRejected(name, primary_doc_id) ==
    IF name = EmptyStr THEN "err_name"
    ELSE IF primary_doc_id = EmptyStr THEN "err_no_id"
    ELSE "ok"

\* the returns of create_document_set once it fetches; aux_valid is whether
\* json.loads accepts auxiliary_docs
CreateFetched(aux_valid, aux_list, outcomes) ==
    IF outcomes[1] = "fail" THEN "err_fetch"
    ELSE IF ~aux_valid THEN "err_json"
    ELSE IF \E k \in 1..Len(aux_list) : outcomes[k + 1] = "fail" THEN "err_fetch_aux"
    ELSE "ok"

\* auxiliary_docs such as '[1]', '{"x": 1}' or '5': json.loads accepts it, and
\* enumerate(aux_list) or aux.get("doc_id") raises TypeError or AttributeError,
\* which neither 'except json.JSONDecodeError' nor the inner try catches
CreateNotObjects(outcome) == IF outcome = "fail" THEN "err_fetch" ELSE "raised"

\* auxiliary_docs arrays: "" and [] give the empty list
AuxLists == UNION {[1..n -> DocIds] : n \in 0..MaxAux}

create_document_set ==
    /\ \/ \E name \in {EmptyStr, <<"S">>}, primary_doc_id \in {EmptyStr, D_t} :
            \* rejected ahead of the first fetch
            /\ CreateRejected(name, primary_doc_id) # "ok"
            /\ last' = Return("create_document_set", EmptyStr,
                              CreateRejected(name, primary_doc_id))
            /\ UNCHANGED <<document_set, document_set_id>>
       \/ \E primary_doc_id \in DocIds, outcome \in {"fail", "ok"} :
            \* auxiliary_docs is text json.loads rejects
            /\ last' = Return("create_document_set", EmptyStr,
                              CreateFetched(FALSE, <<>>, <<outcome>>))
            /\ UNCHANGED <<document_set, document_set_id>>
       \/ \E primary_doc_id \in DocIds, outcome \in {"fail", "ok"} :
            \* auxiliary_docs is JSON that is not an array of objects
            /\ last' = Return("create_document_set", EmptyStr, CreateNotObjects(outcome))
            /\ UNCHANGED <<document_set, document_set_id>>
       \/ \E primary_doc_id \in DocIds, aux_list \in AuxLists \ {<<>>} :
            \* the fetch of an auxiliary document raises; the ones ahead of it answered
            \E failing \in 1..Len(aux_list) :
              LET outcomes == [k \in 1..(Len(aux_list) + 1) |->
                                 IF k = failing + 1 THEN "fail" ELSE "ok"]
              IN /\ last' = Return("create_document_set", EmptyStr,
                                   CreateFetched(TRUE, aux_list, outcomes))
                 /\ UNCHANGED <<document_set, document_set_id>>
       \/ \E primary_doc_id \in DocIds, aux_list \in AuxLists :
            \* every fetch answers
            \E outcomes \in [1..(Len(aux_list) + 1) -> {"empty", "ok"}] :
              /\ outcomes[1] \in FetchOutcomes(primary_doc_id)
              /\ \A k \in 1..Len(aux_list) : outcomes[k + 1] \in FetchOutcomes(aux_list[k])
              /\ CreateFetched(TRUE, aux_list, outcomes) = "ok"
              /\ last' = Return("create_document_set", primary_doc_id, "ok")
              /\ document_set' =
                   [present |-> TRUE, id |-> NewSetId, name |-> <<"S">>,
                    items |-> CreateItems(primary_doc_id, aux_list, outcomes)]
              /\ document_set_id' = NewSetId
    /\ out' = NoOutput
    /\ UNCHANGED <<tender_document_id, tender_tree>>

AddReturn(document_id, outcome) ==
    IF ~Truthy(document_set) THEN "err_no_set"
    ELSE IF document_id = EmptyStr THEN "err_no_id"
    ELSE IF Contains(document_set.items, document_id) THEN "err_exists"
    ELSE IF outcome = "fail" THEN "err_fetch"
    ELSE "ok"

add_to_document_set ==
    \E document_id \in DocIds \cup {EmptyStr}, role \in Roles,
       outcome \in {"fail", "empty", "ok"} :
        /\ outcome \in FetchOutcomes(document_id)
        /\ SetLen(document_set) < MaxItems
        /\ LET ret == AddReturn(document_id, outcome) IN
           /\ last' = Return("add_to_document_set", IF ret = "ok" THEN document_id ELSE EmptyStr, ret)
           /\ IF ret = "ok"
              THEN document_set' =
                     [document_set EXCEPT !.items =
                        add_item(@, DocumentSetItem(document_id,
                                        AddedItemName(DisplayName(document_id), document_id),
                                        "reference",
                                        role, Len(@), FetchedTree(document_id, outcome)))]
              ELSE UNCHANGED document_set
        /\ out' = NoOutput
        /\ UNCHANGED <<document_set_id, tender_document_id, tender_tree>>

RemoveReturn(document_id) ==
    IF ~Truthy(document_set) THEN "err_no_set"
    ELSE IF document_id = EmptyStr THEN "err_no_id"
    ELSE IF Contains(document_set.items, document_id) THEN "ok"
    ELSE "err_not_in_set"

remove_from_document_set ==
    \E document_id \in DocIds \cup {EmptyStr} :
        /\ LET ret == RemoveReturn(document_id) IN
           /\ last' = Return("remove_from_document_set", IF ret = "ok" THEN document_id ELSE EmptyStr, ret)
           /\ IF ret = "ok"
              THEN document_set' = [document_set EXCEPT !.items = remove_item(@, document_id)]
              ELSE UNCHANGED document_set
        /\ out' = NoOutput
        /\ UNCHANGED <<document_set_id, tender_document_id, tender_tree>>

\* set_primary_document without its loop over the current primaries
SetPrimaryItemsNoDemote(items, i) ==
    LET promoted == [items EXCEPT ![i] = [@ EXCEPT !.role = "primary", !.order = 0]]
        keys == [k \in 1..Len(promoted) |->
                    <<IF promoted[k].role = "primary" THEN 0 ELSE 1, promoted[k].order>>]
    IN [p \in 1..Len(promoted) |->
          promoted[CHOOSE k \in 1..Len(promoted) :
             1 + Cardinality({j \in 1..Len(promoted) :
                    KeyLess(keys[j], keys[k]) \/ (keys[j] = keys[k] /\ j < k)}) = p]]

\* lines 284-294 of set_primary_document: demote every primary, promote the
\* item, give it order 0, sort by (0 if primary else 1, order)
SetPrimaryItems(items, i) ==
    LET demoted == [k \in 1..Len(items) |->
                      IF items[k].role = "primary"
                      THEN [items[k] EXCEPT !.role = "auxiliary"] ELSE items[k]]
        promoted == [demoted EXCEPT ![i] = [@ EXCEPT !.role = "primary", !.order = 0]]
        keys == [k \in 1..Len(promoted) |->
                    <<IF promoted[k].role = "primary" THEN 0 ELSE 1, promoted[k].order>>]
    IN StableSort(promoted, keys)

ItemOpReturn(document_id) ==
    IF ~Truthy(document_set) THEN "err_no_set"
    ELSE IF document_id = EmptyStr THEN "err_no_id"
    ELSE IF IndexOfDocId(document_set.items, document_id) = 0 THEN "err_not_in_set"
    ELSE "ok"

set_primary_document ==
    \E document_id \in DocIds \cup {EmptyStr} :
        /\ LET ret == ItemOpReturn(document_id) IN
           /\ last' = Return("set_primary_document", IF ret = "ok" THEN document_id ELSE EmptyStr, ret)
           /\ IF ret = "ok"
              THEN document_set' =
                     [document_set EXCEPT !.items =
                        SetPrimaryItems(@, IndexOfDocId(@, document_id))]
              ELSE UNCHANGED document_set
        /\ out' = NoOutput
        /\ UNCHANGED <<document_set_id, tender_document_id, tender_tree>>

\* the item losing its tree when the fetch of the new one raises
RefreshedItemsClearedOnFailure(items, document_id, outcome) ==
    [items EXCEPT ![IndexOfDocId(items, document_id)].tree =
        FetchedTree(document_id, outcome)]

\* lines 322-329 of refresh_document_tree: item.tree is assigned once
\* get_document_tree has answered, and not at all if it raises
RefreshedItems(items, document_id, outcome) ==
    IF outcome = "fail" THEN items
    ELSE [items EXCEPT ![IndexOfDocId(items, document_id)].tree =
            FetchedTree(document_id, outcome)]

refresh_document_tree ==
    \E document_id \in DocIds \cup {EmptyStr}, outcome \in {"fail", "empty", "ok"} :
        /\ outcome \in FetchOutcomes(document_id)
        /\ LET pre == ItemOpReturn(document_id)
               ret == IF pre = "ok" /\ outcome = "fail" THEN "err_fetch" ELSE pre
           IN
           /\ last' = Return("refresh_document_tree", IF ret = "ok" THEN document_id ELSE EmptyStr, ret)
           /\ IF pre = "ok"
              THEN document_set' =
                     [document_set EXCEPT !.items = RefreshedItems(@, document_id, outcome)]
              ELSE UNCHANGED document_set
        /\ out' = NoOutput
        /\ UNCHANGED <<document_set_id, tender_document_id, tender_tree>>

----------------------------------------------------------------------------
(* Query tools: src/bid_agents/tools/document_set_query.py *)

get_merged_tree ==
    \E format \in {"hierarchical", "flat"} :
        IF ~Truthy(document_set)
        THEN /\ last' = Return("get_merged_tree", EmptyStr, "err_no_set")
             /\ out' = NoOutput
             /\ UNCHANGED <<document_set, document_set_id, tender_document_id, tender_tree>>
        ELSE /\ last' = Return("get_merged_tree", EmptyStr, "ok")
             /\ out' = [format |-> format,
                        value |-> IF format = "flat" THEN flatten_to_text(document_set)
                                  ELSE <<merge(document_set)>>]
             /\ document_set' = merge_effect(document_set)
             /\ UNCHANGED <<document_set_id, tender_document_id, tender_tree>>

\* the scope literals of query_document_set
S_primary == <<"p", "r", "i", "m", "a", "r", "y">>
S_auxiliary == <<"a", "u", "x", "i", "l", "i", "a", "r", "y">>
S_all == <<"a", "l", "l">>

\* lines 41-56 of query_document_set: the items the scope selects
documents_to_query(items, scope) ==
    IF scope = S_primary
    THEN (IF get_primary_index(items) # 0 THEN <<items[get_primary_index(items)]>> ELSE <<>>)
    ELSE IF scope = S_auxiliary THEN get_items_by_role(items, "auxiliary")
    ELSE IF Contains(items, scope) THEN <<items[IndexOfDocId(items, scope)]>>
    ELSE get_sorted_items(items)

\* f"[{item.name}] "
Bracketed(name) == <<"[">> \o name \o <<"]", " ">>
\* the answer of the Q&A endpoint for a document
Answer(document_id) == <<"answer:">> \o document_id
\* "查询失败: " and the text of the exception
S_query_failed == <<"query failed: ">>
QueryError == <<"E">>

\* the loop over the targets that gives up at the first failing Q&A call
QueryResultsUntilFailure(targets, failing) ==
    LET first == IF failing = {} THEN Len(targets) + 1
                 ELSE CHOOSE k \in failing : \A j \in failing : k <= j
    IN [k \in 1..(first - 1) |->
          (IF Len(targets) > 1 THEN Bracketed(targets[k].name) ELSE EmptyStr)
          \o Answer(targets[k].document_id)]

\* lines 62-85: the list 'results', one text per target; failing holds the
\* positions of the targets whose chat_with_document call raises
QueryResults(targets, failing) ==
    [k \in 1..Len(targets) |->
        IF k \in failing
        THEN Bracketed(targets[k].name) \o S_query_failed \o QueryError
        ELSE (IF Len(targets) > 1 THEN Bracketed(targets[k].name) ELSE EmptyStr)
             \o Answer(targets[k].document_id)]

\* query_document_set; what it returns is kept as the list 'results' that it
\* joins below the header
query_document_set ==
    \E scope \in {S_primary, S_auxiliary, S_all, D_t, D_a} :
        /\ IF ~Truthy(document_set)
           THEN \* handed over to query_tender_requirements
                /\ last' = Return("query_document_set", EmptyStr, "legacy_query")
                /\ out' = NoOutput
           ELSE LET targets == documents_to_query(document_set.items, scope) IN
                IF targets = <<>>
                THEN /\ last' = Return("query_document_set", EmptyStr, "err_no_targets")
                     /\ out' = NoOutput
                ELSE \E failing \in SUBSET (1..Len(targets)) :
                       /\ last' = [op |-> "query_document_set", doc |-> scope, ret |-> "ok",
                                   targets |-> targets, failing |-> failing]
                       /\ out' = [format |-> "results",
                                  value |-> QueryResults(targets, failing)]
        /\ UNCHANGED <<document_set, document_set_id, tender_document_id, tender_tree>>

\* {t.strip() for t in doc_types.split(",")}
allowed_types(doc_types) ==
    {Strip(SplitComma(doc_types)[k]) : k \in 1..Len(SplitComma(doc_types))}

\* lines 146-149 of find_across_documents
FilteredItems(items, doc_types) ==
    LET Allowed(item) == <<item.doc_type>> \in allowed_types(doc_types)
    IN IF doc_types # EmptyStr THEN SelectSeq(get_sorted_items(items), Allowed)
       ELSE get_sorted_items(items)

\* lines 166-168: the display name a match is grouped under
GroupName(items, doc_id) ==
    IF IndexOfDocId(items, doc_id) # 0 THEN items[IndexOfDocId(items, doc_id)].name
    ELSE doc_id

\* lines 165-172: by_document, the names in the order of their first match,
\* each with the titles of its matching nodes
by_document(items, matching_nodes) ==
    LET names == [k \in 1..Len(matching_nodes) |-> GroupName(items, matching_nodes[k].doc_id)]
        positions == [k \in 1..Len(names) |-> k]
        First(k) == \A j \in 1..(k - 1) : names[j] # names[k]
        firsts == SelectSeq(positions, First)
    IN [g \in 1..Len(firsts) |->
          LET Mine(e) == GroupName(items, e.doc_id) = names[firsts[g]]
              mine == SelectSeq(matching_nodes, Mine)
          IN [name |-> names[firsts[g]],
              titles |-> [k \in 1..Len(mine) |-> mine[k].node.title]]]

FindReturn(keyword, doc_types) ==
    IF ~Truthy(document_set) THEN "err_no_set"
    ELSE IF keyword = EmptyStr THEN "err_no_keyword"
    ELSE IF FilteredItems(document_set.items, doc_types) = <<>> THEN "err_no_type"
    ELSE IF find_nodes_by_title(document_set.items, keyword) = <<>> THEN "no_match"
    ELSE "ok"

\* the doc_types arguments: none, 'reference, template', 'historical', 'company'
DocTypesArgs ==
    {EmptyStr, <<"reference", ",", " ", "template">>, <<"historical">>, <<"company">>}

find_across_documents ==
    \E keyword \in {EmptyStr, <<"a">>, <<"s">>, <<"q">>}, doc_types \in DocTypesArgs :
        /\ LET ret == FindReturn(keyword, doc_types) IN
           IF ret = "ok"
           THEN /\ last' = [op |-> "find_across_documents", doc |-> keyword, ret |-> "ok",
                            doc_types |-> doc_types]
                /\ out' = [format |-> "matches",
                           value |-> by_document(document_set.items,
                                       find_nodes_by_title(document_set.items, keyword))]
           ELSE /\ last' = Return("find_across_documents", EmptyStr, ret)
                /\ out' = NoOutput
        /\ UNCHANGED <<document_set, document_set_id, tender_document_id, tender_tree>>

\* the 'common' titles taken from the first document alone
CommonFirstOnly(titles1, titles2) == titles1

\* titles1 & titles2
Common(titles1, titles2) == titles1 \cap titles2

\* lines 222-233: the lower-cased titles of a document's nodes that hold the pattern
TitlesOf(items, doc_id, section_pattern) ==
    LET nodes == get_document_nodes(items, doc_id) IN
    {Lower(nodes[k].title) : k \in {j \in 1..Len(nodes) :
         section_pattern = EmptyStr
         \/ IsSubstring(Lower(section_pattern), Lower(nodes[j].title))}}

\* lines 219-257 of compare_documents: the names and the three sets of titles
\* the text lists, each in sorted order
Comparison(items, doc_id_1, doc_id_2, section_pattern) ==
    LET titles1 == TitlesOf(items, doc_id_1, section_pattern)
        titles2 == TitlesOf(items, doc_id_2, section_pattern)
    IN [name1 |-> items[IndexOfDocId(items, doc_id_1)].name,
        name2 |-> items[IndexOfDocId(items, doc_id_2)].name,
        common |-> Common(titles1, titles2),
        only_in_1 |-> titles1 \ titles2,
        only_in_2 |-> titles2 \ titles1]

CompareReturn(doc_id_1, doc_id_2) ==
    IF ~Truthy(document_set) THEN "err_no_set"
    ELSE IF doc_id_1 = EmptyStr \/ doc_id_2 = EmptyStr THEN "err_no_id"
    ELSE IF IndexOfDocId(document_set.items, doc_id_1) = 0
            \/ IndexOfDocId(document_set.items, doc_id_2) = 0 THEN "err_not_in_set"
    ELSE "ok"

compare_documents ==
    \E doc_id_1 \in {EmptyStr, D_t, D_a, S_auxiliary}, doc_id_2 \in {EmptyStr, D_t, D_a, S_auxiliary},
       section_pattern \in {EmptyStr, <<"A">>} :
        /\ LET ret == CompareReturn(doc_id_1, doc_id_2) IN
           IF ret = "ok"
           THEN /\ last' = [op |-> "compare_documents", doc |-> <<doc_id_1, doc_id_2>>,
                            ret |-> "ok", section_pattern |-> section_pattern]
                /\ out' = [format |-> "comparison",
                           value |-> <<Comparison(document_set.items, doc_id_1, doc_id_2,
                                                  section_pattern)>>]
           ELSE /\ last' = Return("compare_documents", EmptyStr, ret)
                /\ out' = NoOutput
        /\ UNCHANGED <<document_set, document_set_id, tender_document_id, tender_tree>>

----------------------------------------------------------------------------
(* Migration: src/bid_agents/services/document_set_compat.py *)

MigrateReturn ==
    IF tender_document_id = EmptyStr THEN "err_no_tender"
    ELSE IF Truthy(document_set) THEN "already"
    ELSE "ok"

\* the tree of the migrated item without the fallback to the cached tree
MigrateTreeNoFallback(outcome) == FetchedTree(tender_document_id, outcome)

\* lines 54-60: the tree of the migrated item, the fetched one, or the cached
\* state.tender_tree if the fetch raised
MigrateTree(outcome) ==
    IF outcome = "fail" THEN tender_tree ELSE FetchedTree(tender_document_id, outcome)

\* lines 63-83: the DocumentSet with the legacy document as its primary item
MigratedSet(tree) ==
    [present |-> TRUE, id |-> NewSetId, name |-> MigratedSetName,
     items |-> add_item(<<>>, DocumentSetItem(tender_document_id, PrimaryItemName,
                                              "tender", "primary", 0, tree))]

\* what the model keeps of a migration that went through: the legacy document
\* and the outcome of the fetch of its tree
Migrated(op, ret, outcome) ==
    [op |-> op, doc |-> tender_document_id, ret |-> ret, fetch |-> outcome]

migrate_single_to_document_set ==
    \E outcome \in FetchOutcomes(tender_document_id) :
        /\ LET ret == MigrateReturn IN
           IF ret = "ok"
           THEN /\ last' = Migrated("migrate_single_to_document_set", "ok", outcome)
                /\ document_set' = MigratedSet(MigrateTree(outcome))
                /\ document_set_id' = NewSetId
           ELSE /\ last' = Return("migrate_single_to_document_set", EmptyStr, ret)
                /\ UNCHANGED <<document_set, document_set_id>>
        /\ out' = NoOutput
        /\ UNCHANGED <<tender_document_id, tender_tree>>

\* auto_migrate_if_needed: False with a DocumentSet that is truthy or without
\* a legacy document, else the migration and True
auto_migrate_if_needed ==
    \E outcome \in FetchOutcomes(tender_document_id) :
        /\ IF Truthy(document_set) \/ tender_document_id = EmptyStr
           THEN /\ last' = [op |-> "auto_migrate_if_needed", doc |-> EmptyStr,
                            ret |-> "false"]
                /\ UNCHANGED <<document_set, document_set_id>>
           ELSE /\ last' = Migrated("auto_migrate_if_needed", "true", outcome)
                /\ document_set' = MigratedSet(MigrateTree(outcome))
                /\ document_set_id' = NewSetId
        /\ out' = NoOutput
        /\ UNCHANGED <<tender_document_id, tender_tree>>

\* ensure_backward_compatibility: copies the primary item's document id, and
\* its tree if that is truthy, into the legacy fields
ensure_backward_compatibility ==
    /\ IF ~Truthy(document_set)
       THEN UNCHANGED <<tender_document_id, tender_tree>>
       ELSE LET primary == document_set.items[get_primary_index(document_set.items)] IN
            /\ tender_document_id' = primary.document_id
            /\ tender_tree' = IF HasTree(primary) THEN primary.tree ELSE tender_tree
    /\ last' = [op |-> "ensure_backward_compatibility", doc |-> EmptyStr, ret |-> "ok"]
    /\ out' = NoOutput
    /\ UNCHANGED <<document_set, document_set_id>>

----------------------------------------------------------------------------
(* Specification *)

\* the session after BidProjectState.load_from_backend: a legacy tender
\* document may be known, with or without its tree; no DocumentSet yet
Init ==
    /\ document_set = NoSet
    /\ document_set_id = 0
    /\ \E legacy \in {<<EmptyStr, NoTree>>, <<D_t, Tree_t>>} :
          /\ tender_document_id = legacy[1]
          /\ tender_tree = legacy[2]
    /\ last = Return("init", EmptyStr, "ok")
    /\ out = NoOutput

Next ==
    \/ create_document_set
    \/ add_to_document_set
    \/ remove_from_document_set
    \/ set_primary_document
    \/ refresh_document_tree
    \/ migrate_single_to_document_set
    \/ get_merged_tree

Spec == Init /\ [][Next]_vars

\* the session seen from the migration layer: the tools that build and change
\* the DocumentSet, and the functions of document_set_compat
CompatNext ==
    \/ create_document_set
    \/ add_to_document_set
    \/ remove_from_document_set
    \/ migrate_single_to_document_set
    \/ auto_migrate_if_needed
    \/ ensure_backward_compatibility

CompatSpec == Init /\ [][CompatNext]_vars

\* the identifiers handed to resolve_node: the local ids of the set's nodes,
\* every doc_{document_id}_{id} made of a document and a local id of the set,
\* and identifiers of neither kind
ResolveArgs(items) ==
    LET local == UNION {{TreeNodes(items[i].tree)[k].id :
                            k \in 1..Len(TreeNodes(items[i].tree))} :
                        i \in {j \in 1..Len(items) : HasTree(items[j])}}
        docs == {items[i].document_id : i \in 1..Len(items)}
    IN local \cup {NamespacedId(d, id) : d \in docs, id \in local}
             \cup {<<"z">>, S_doc_, S_doc_ \o D_a, NamespacedId(D_ab, <<"c">>)}

\* NodeResolver(state.document_set).resolve_node(node_id)
NodeResolver_resolve_node ==
    /\ document_set.present
    /\ \E node_id \in ResolveArgs(document_set.items) :
          /\ last' = [op |-> "resolve_node", doc |-> node_id,
                      ret |-> IF resolve_node(document_set.items, node_id).found
                              THEN "ok" ELSE "not_found"]
          /\ out' = [format |-> "resolved",
                     value |-> <<resolve_node(document_set.items, node_id)>>]
    /\ UNCHANGED <<document_set, document_set_id, tender_document_id, tender_tree>>

\* the documents of the sets the query tools are run on; the last one has
\* the id 'auxiliary'
QueryDocIds == {D_t, D_a, S_auxiliary}

\* lines 72-93 of create_document_set with aux.get("doc_type", "reference"):
\* the items of a set created from a primary and auxiliary documents of the
\* given types, every fetch answering with the document's tree
CreateItemsTyped(primary_doc_id, aux_list, aux_types) ==
    LET items == CreateItems(primary_doc_id, aux_list,
                             [k \in 1..(Len(aux_list) + 1) |-> "ok"])
    IN [k \in 1..Len(items) |->
          IF k = 1 THEN items[k] ELSE [items[k] EXCEPT !.doc_type = aux_types[k - 1]]]

\* the sets create_document_set builds from distinct documents, and those
\* sets after remove_from_document_set took the primary document out
QueryItemLists ==
    LET created ==
          {CreateItemsTyped(p, aux_list, aux_types) :
              p \in QueryDocIds,
              aux_list \in {l \in UNION {[1..n -> QueryDocIds] : n \in 0..MaxQueryAux} :
                              \A i, j \in 1..Len(l) : i # j => l[i] # l[j]},
              aux_types \in [1..MaxQueryAux -> {"reference", "historical"}]}
        distinct == {items \in created :
                       \A i, j \in 1..Len(items) :
                           i # j => items[i].document_id # items[j].document_id}
    IN distinct \cup {remove_item(items, items[1].document_id) : items \in distinct}

\* the session when the query tools are called: no DocumentSet, or one of
\* the sets above
QueryInit ==
    /\ \/ document_set = NoSet /\ document_set_id = 0
       \/ \E items \in QueryItemLists :
             /\ document_set = [present |-> TRUE, id |-> 1, name |-> <<"S">>, items |-> items]
             /\ document_set_id = 1
    /\ tender_document_id = EmptyStr
    /\ tender_tree = NoTree
    /\ last = Return("init", EmptyStr, "ok")
    /\ out = NoOutput

QueryNext ==
    \/ query_document_set
    \/ find_across_documents
    \/ compare_documents
    \/ NodeResolver_resolve_node

QuerySpec == QueryInit /\ [][QueryNext]_vars

-----------------------------------------------------------------------------
(* query_document_set step by step: the loop of lines 62-85 with each
   chat_with_document call and its answer as steps of their own. 'last' holds
   the progress of the running call (targets, the positions called so far in
   call order, the positions awaiting an answer, the positions that raised),
   'out' the list 'results' built so far. *)

\* a query_document_set call is inside its loop
Querying == last.op = "query_document_set" /\ last.ret = "running"

\* lines 16-59: the targets are chosen and the loop is entered
query_document_set_begin ==
    /\ ~Querying
    /\ \E scope \in {S_primary, S_auxiliary, S_all, D_t, D_a} :
          IF ~Truthy(document_set)
          THEN /\ last' = Return("query_document_set", EmptyStr, "legacy_query")
               /\ out' = NoOutput
          ELSE LET targets == documents_to_query(document_set.items, scope) IN
               IF targets = <<>>
               THEN /\ last' = Return("query_document_set", EmptyStr, "err_no_targets")
                    /\ out' = NoOutput
               ELSE /\ last' = [op |-> "query_document_set", doc |-> scope, ret |-> "running",
                                targets |-> targets, calls |-> <<>>,
                                awaiting |-> {}, failing |-> {}]
                    /\ out' = [format |-> "results", value |-> <<>>]
    /\ UNCHANGED <<document_set, document_set_id, tender_document_id, tender_tree>>

\* a loop that starts the calls for all targets without awaiting any of them
NextCallAnyPending(progress) ==
    {k \in 1..Len(progress.targets) :
        \A c \in 1..Len(progress.calls) : progress.calls[c] # k}

\* 'for item in documents_to_query: ... await api_client.chat_with_document':
\* the positions whose call may start now; the coroutine is suspended in the
\* await until the call answers or raises, so none while one is awaited
NextCall(progress) ==
    IF progress.awaiting = {} /\ Len(progress.calls) < Len(progress.targets)
    THEN {Len(progress.calls) + 1}
    ELSE {}

\* lines 64-68: chat_with_document is called for a target
chat_with_document ==
    /\ Querying
    /\ \E k \in NextCall(last) :
          last' = [last EXCEPT !.calls = Append(@, k), !.awaiting = @ \cup {k}]
    /\ UNCHANGED <<document_set, document_set_id, tender_document_id, tender_tree, out>>

\* lines 70-82: the call answered; result_text is appended to results
chat_with_document_answer ==
    /\ Querying
    /\ \E k \in last.awaiting :
          /\ last' = [last EXCEPT !.awaiting = @ \ {k}]
          /\ out' = [out EXCEPT !.value = Append(@,
                        (IF Len(last.targets) > 1 THEN Bracketed(last.targets[k].name)
                         ELSE EmptyStr) \o Answer(last.targets[k].document_id))]
    /\ UNCHANGED <<document_set, document_set_id, tender_document_id, tender_tree>>

\* lines 84-85: the call raised; the failure text is appended to results
chat_with_document_raise ==
    /\ Querying
    /\ \E k \in last.awaiting :
          /\ last' = [last EXCEPT !.awaiting = @ \ {k}, !.failing = @ \cup {k}]
          /\ out' = [out EXCEPT !.value = Append(@,
                        Bracketed(last.targets[k].name) \o S_query_failed \o QueryError)]
    /\ UNCHANGED <<document_set, document_set_id, tender_document_id, tender_tree>>

\* lines 87-93: the loop is over; results is joined below the header
query_document_set_return ==
    /\ Querying
    /\ last.awaiting = {}
    /\ NextCallAnyPending(last) = {}
    /\ last' = [last EXCEPT !.ret = "ok"]
    /\ UNCHANGED <<document_set, document_set_id, tender_document_id, tender_tree, out>>

FanOutNext ==
    \/ query_document_set_begin
    \/ chat_with_document
    \/ chat_with_document_answer
    \/ chat_with_document_raise
    \/ query_document_set_return

FanOutSpec == QueryInit /\ [][FanOutNext]_vars

----------------------------------------------------------------------------
(* Claims *)

Items == document_set.items

PrimaryIndexes == {i \in 1..Len(Items) : is_primary(Items[i])}

\* C1: in every reachable state at most one item of the DocumentSet has
\* role 'primary'.
C1_AtMostOnePrimary == Cardinality(PrimaryIndexes) <= 1

\* C2: the order values of the items of the DocumentSet are pairwise distinct
\* in every reachable state.
C2_OrdersDistinct ==
    \A i, j \in 1..Len(Items) : i # j => Items[i].order # Items[j].order

SetPrimaryReturned ==
    last.op = "set_primary_document" /\ last.ret = "ok"

\* C3: once set_primary_document(x) has returned its success message,
\* get_primary_item() is the item whose document_id is x, and no other item
\* has role 'primary'.
C3_SetPrimaryThenGetPrimary ==
    SetPrimaryReturned =>
        LET p == get_primary_index(Items) IN
        /\ p # 0
        /\ Items[p].document_id = last.doc
        /\ is_primary(Items[p])
        /\ \A j \in 1..Len(Items) : j # p => ~is_primary(Items[j])

\* C3 witness: set_primary_document(x) succeeded on a set that holds another
\* document which was created as the primary one and is now demoted.
C3_Witness ==
    /\ SetPrimaryReturned
    /\ \E j \in 1..Len(Items) :
          /\ Items[j].document_id # last.doc
          /\ Items[j].name = PrimaryItemName
          /\ Items[j].role = "auxiliary"

\* C4: in every reachable state an item with role 'primary' is at the first
\* position of the item sequence.
C4_PrimaryFirst ==
    \A i \in 1..Len(Items) : is_primary(Items[i]) => i = 1

\* get_merged_tree has returned the merged tree of the current DocumentSet
MergedReturned ==
    last.op = "get_merged_tree" /\ last.ret = "ok" /\ out.format = "hierarchical"

Merged == out.value[1]

DistinctDocIds ==
    \A i, j \in 1..Len(Items) : i # j => Items[i].document_id # Items[j].document_id

NoDuplicates(seq) == \A i, j \in 1..Len(seq) : i # j => seq[i] # seq[j]

IdsOf(tree) == [k \in 1..Len(TreeNodes(tree)) |-> TreeNodes(tree)[k].id]

\* every tree of the set has identifiers unique within its own document
LocalIdsUnique ==
    \A i \in 1..Len(Items) : HasTree(Items[i]) => NoDuplicates(IdsOf(Items[i].tree))

\* C5: for a DocumentSet with pairwise distinct document ids and trees whose
\* identifiers are unique within their document, all node identifiers of the
\* tree merge() returns are pairwise distinct.
C5_MergedIdsDistinct ==
    (MergedReturned /\ DistinctDocIds /\ LocalIdsUnique) => NoDuplicates(IdsOf(Merged))

\* the item with role 'primary' merge() starts from, 0 if no item has the role
RolePrimary == FirstPrimaryIndex(Items)

AuxWithTree == {i \in 1..Len(Items) : Items[i].role = "auxiliary" /\ HasTree(Items[i])}

AuxBranchPositions ==
    {k \in 1..Len(Merged.children) : Merged.children[k].id = S_auxiliary_docs}

\* C6: with a primary item that has a populated tree, the root of the merged
\* tree has exactly one child with id 'auxiliary_docs' if some auxiliary item
\* has a populated tree, with as many children as there are such items, and
\* otherwise the root's children are those of the primary tree, nothing added.
C6_AuxBranch ==
    (MergedReturned /\ RolePrimary # 0 /\ HasTree(Items[RolePrimary])) =>
        IF AuxWithTree # {}
        THEN /\ Cardinality(AuxBranchPositions) = 1
             /\ \A k \in AuxBranchPositions :
                   Len(Merged.children[k].children) = Cardinality(AuxWithTree)
        ELSE Merged.children = Items[RolePrimary].tree.children

\* the index paths of the nodes of a tree, <<>> being its root
RECURSIVE PathsOf(_)
PathsOf(node) ==
    {<<>>} \cup UNION {{<<k>> \o q : q \in PathsOf(node.children[k])} :
                        k \in 1..Len(node.children)}

RECURSIVE NodeAt(_, _)
NodeAt(node, path) ==
    IF path = <<>> THEN node ELSE NodeAt(node.children[Head(path)], Tail(path))

\* dst is src with every identifier rewritten to doc_{doc_id}_{id}, the same
\* titles, summaries and children in the same order, the root's title
\* prefixed with '[{name}] '
IsNamespacedCopy(dst, src, doc_id, name) ==
    \A q \in PathsOf(src) :
        LET a == NodeAt(src, q)
            b == NodeAt(dst, q)
        IN /\ b.id = <<"d", "o", "c", "_">> \o doc_id \o <<"_">> \o a.id
           /\ b.title = (IF q = <<>> THEN <<"[">> \o name \o <<"]", " ">> \o a.title
                         ELSE a.title)
           /\ b.summary = a.summary
           /\ Len(b.children) = Len(a.children)

AuxItemsWithTree ==
    LET T(it) == it.role = "auxiliary" /\ HasTree(it) IN SelectSeq(Items, T)

\* C7: when an item with role 'primary' and a populated tree exists, the
\* merged tree is the primary tree with ids, titles and child order as they
\* are, followed, if some auxiliary item has a populated tree, by the
\* 'auxiliary_docs' branch whose k-th child is the namespaced copy of the
\* tree of the k-th such item, its root title prefixed with the item's name.
C7_PrimaryVerbatimAuxNamespaced ==
    (MergedReturned /\ RolePrimary # 0 /\ HasTree(Items[RolePrimary])) =>
        LET ptree == Items[RolePrimary].tree
            n == Len(ptree.children)
        IN /\ Merged.id = ptree.id
           /\ Merged.title = ptree.title
           /\ Len(Merged.children) >= n
           /\ SubSeq(Merged.children, 1, n) = ptree.children
           /\ AuxItemsWithTree # <<>> =>
                /\ Len(Merged.children) = n + 1
                /\ Len(Merged.children[n + 1].children) = Len(AuxItemsWithTree)
                /\ \A k \in 1..Len(AuxItemsWithTree) :
                      IsNamespacedCopy(Merged.children[n + 1].children[k],
                                       AuxItemsWithTree[k].tree,
                                       AuxItemsWithTree[k].document_id,
                                       AuxItemsWithTree[k].name)

\* C7 witness: the scenario of the spec, a primary with children c1 and c2
\* and one auxiliary document 'a' whose tree has the nodes c1 and, below it,
\* b_c: the root's children are c1, c2, auxiliary_docs -> [doc_a_c1 -> [doc_a_b_c]].
C7_Witness ==
    /\ MergedReturned
    /\ Len(Merged.children) = 3
    /\ Merged.children[1].id = <<"c", "1">>
    /\ Merged.children[2].id = <<"c", "2">>
    /\ Merged.children[3].id = S_auxiliary_docs
    /\ Len(Merged.children[3].children) = 1
    /\ Merged.children[3].children[1].id = <<"d", "o", "c", "_", "a", "_", "c", "1">>
    /\ Merged.children[3].children[1].children[1].id =
            <<"d", "o", "c", "_", "a", "_", "b", "_", "c">>

ItemsWithTreeByOrder == SelectSeq(get_sorted_items(Items), HasTree)

\* C8: if no item has role 'primary', or the primary item has no populated
\* tree, merge() returns the flat structure: a root 'root' whose children
\* are one namespaced, title-prefixed subtree per item with a populated tree,
\* by increasing order (stated for sets whose document ids are distinct).
C8_FlatWithoutPrimary ==
    (MergedReturned /\ DistinctDocIds
        /\ (RolePrimary = 0 \/ ~HasTree(Items[RolePrimary]))) =>
        /\ Merged.id = S_root
        /\ Len(Merged.children) = Len(ItemsWithTreeByOrder)
        /\ \A k \in 1..Len(ItemsWithTreeByOrder) :
              IsNamespacedCopy(Merged.children[k], ItemsWithTreeByOrder[k].tree,
                               ItemsWithTreeByOrder[k].document_id,
                               ItemsWithTreeByOrder[k].name)

GetMergedTreeOk == last.op = "get_merged_tree" /\ last.ret = "ok"

NotReused(i, id) ==
    \A j \in 1..Len(Items) :
        (j # i /\ HasTree(Items[j])) =>
            \A k \in 1..Len(IdsOf(Items[j].tree)) : IdsOf(Items[j].tree)[k] # id

\* C10: for every item D and every node n of its tree whose local id no
\* other document of the set uses, resolve_node('doc_{D.document_id}_{n.id}')
\* returns D's document id and n.
C10_ResolveRoundTrip ==
    \A i \in 1..Len(Items) :
        HasTree(Items[i]) =>
            \A k \in 1..Len(TreeNodes(Items[i].tree)) :
                LET n == TreeNodes(Items[i].tree)[k] IN
                NotReused(i, n.id) =>
                    resolve_node(Items, NamespacedId(Items[i].document_id, n.id))
                        = Found(Items[i].document_id, n)

NonDecreasing(items) ==
    \A i, j \in 1..Len(items) : i < j => items[i].order <= items[j].order

CompareReturned == last.op = "compare_documents" /\ last.ret = "ok"

\* C11: compare_documents(A, B) reports the 'common' titles that
\* compare_documents(B, A) reports for the same pattern, and its 'only in
\* first' and 'only in second' sets are the other call's 'only in second' and
\* 'only in first' sets.
C11_CompareSymmetric ==
    CompareReturned =>
        LET ab == out.value[1]
            ba == Comparison(Items, last.doc[2], last.doc[1], last.section_pattern)
        IN /\ ab.common = ba.common
           /\ ab.only_in_1 = ba.only_in_2
           /\ ab.only_in_2 = ba.only_in_1
           /\ ab.name1 = ba.name2 /\ ab.name2 = ba.name1

\* C11 witness: two different documents were compared that share a title,
\* the second one having titles the first lacks.
C11_Witness ==
    /\ CompareReturned
    /\ last.doc[1] # last.doc[2]
    /\ out.value[1].common # {}
    /\ out.value[1].only_in_2 # {}
    /\ out.value[1].only_in_1 # out.value[1].only_in_2

QueryReturned == last.op = "query_document_set" /\ last.ret = "ok"

\* C12: the output of query_document_set has one segment per target item:
\* for an item whose Q&A call failed a segment with the failure text that
\* names the item, for every other item its answer.
C12_OneSegmentPerTarget ==
    QueryReturned =>
        /\ Len(out.value) = Len(last.targets)
        /\ \A k \in 1..Len(last.targets) :
              IF k \in last.failing
              THEN /\ IsSubstring(S_query_failed, out.value[k])
                   /\ IsSubstring(last.targets[k].name, out.value[k])
              ELSE /\ ~IsSubstring(S_query_failed, out.value[k])
                   /\ IsSubstring(Answer(last.targets[k].document_id), out.value[k])

\* C12 witness: the Q&A call failed for exactly one of three targets.
C12_Witness ==
    /\ QueryReturned
    /\ Len(last.targets) = 3
    /\ Cardinality(last.failing) = 1
    /\ Len(out.value) = 3

\* C13: on a non-empty DocumentSet a scope that is the document id of an
\* item targets exactly that item, whatever the id is; otherwise 'primary'
\* targets the single primary item, 'auxiliary' the items with role
\* 'auxiliary', and 'all' or any other value every item by increasing order.
C13_ScopeTargets ==
    QueryReturned =>
        IF Contains(Items, last.doc)
        THEN last.targets = <<Items[IndexOfDocId(Items, last.doc)]>>
        ELSE IF last.doc = S_primary
        THEN (Cardinality(PrimaryIndexes) = 1 =>
                \A i \in PrimaryIndexes : last.targets = <<Items[i]>>)
        ELSE IF last.doc = S_auxiliary
        THEN last.targets = get_items_by_role(Items, "auxiliary")
        ELSE /\ Len(last.targets) = Len(Items)
             /\ \A i \in 1..Len(Items) : \E k \in 1..Len(last.targets) : last.targets[k] = Items[i]
             /\ NonDecreasing(last.targets)

FindReturned == last.op = "find_across_documents" /\ last.ret = "ok"

\* C14: when doc_types is given, every group find_across_documents reports
\* is under the name of an item whose doc_type is one of the listed types.
C14_FindOnlyListedTypes ==
    (FindReturned /\ last.doc_types # EmptyStr) =>
        \A g \in 1..Len(out.value) :
            \A i \in 1..Len(Items) :
                Items[i].name = out.value[g].name =>
                    <<Items[i].doc_type>> \in allowed_types(last.doc_types)

AutoMigrateReturned == last.op = "auto_migrate_if_needed"

\* C15: auto_migrate_if_needed returns false and changes nothing if a
\* DocumentSet exists or there is no legacy document id; otherwise it returns
\* true and a DocumentSet exists afterwards; a call right after another call
\* returns false and leaves document_set and document_set_id as they are.
C15_AutoMigrateIdempotent ==
    [][ AutoMigrateReturned' =>
          /\ (document_set.present \/ tender_document_id = EmptyStr) =>
                /\ last'.ret = "false"
                /\ UNCHANGED <<document_set, document_set_id, tender_document_id, tender_tree>>
          /\ (~document_set.present /\ tender_document_id # EmptyStr) =>
                /\ last'.ret = "true"
                /\ document_set'.present
          /\ AutoMigrateReturned =>
                /\ last'.ret = "false"
                /\ document_set' = document_set
                /\ document_set_id' = document_set_id ]_vars

\* C16: a call of migrate_single_to_document_set or auto_migrate_if_needed in
\* a state where state.document_set holds a DocumentSet object leaves
\* document_set and document_set_id unchanged.
C16_MigrationNeverOverwrites ==
    [][ (document_set.present
         /\ last'.op \in {"migrate_single_to_document_set", "auto_migrate_if_needed"}) =>
            /\ document_set' = document_set
            /\ document_set_id' = document_set_id ]_vars

MigrateReturned == last.op = "migrate_single_to_document_set" /\ last.ret = "ok"

\* C17: after migrate_single_to_document_set went through, the DocumentSet
\* holds exactly one item, the legacy document with role 'primary', whose tree
\* is the one the repository answered with, or the cached tender_tree if the
\* fetch failed.
C17_MigrateSingleItem ==
    MigrateReturned =>
        /\ document_set.present
        /\ Len(Items) = 1
        /\ Items[1].document_id = tender_document_id
        /\ Items[1].role = "primary"
        /\ Items[1].tree = (IF last.fetch = "fail" THEN tender_tree
                            ELSE IF last.fetch = "ok" THEN RepoTree(tender_document_id)
                            ELSE NoTree)

\* C17 witness: the fetch failed and the migrated item carries the cached tree.
C17_Witness ==
    /\ MigrateReturned
    /\ last.fetch = "fail"
    /\ IsPopulated(tender_tree)
    /\ Len(Items) = 1 /\ Items[1].tree = tender_tree

\* C18: a call of ensure_backward_compatibility on a DocumentSet with a
\* primary item leaves tender_document_id equal to the primary item's
\* document_id and tender_tree equal to the primary item's tree, and the
\* DocumentSet as it was.
C18_LegacyFieldsFollowPrimary ==
    [][ (last'.op = "ensure_backward_compatibility"
         /\ document_set.present /\ FirstPrimaryIndex(document_set.items) # 0) =>
            LET primary == document_set.items[FirstPrimaryIndex(document_set.items)] IN
            /\ document_set' = document_set
            /\ tender_document_id' = primary.document_id
            /\ tender_tree' = primary.tree ]_vars

\* C19: no tool operation raises an exception to its caller: every call ends
\* by returning a string.
C19_ToolsNeverRaise == last.ret # "raised"

\* seq without its k-th element
Without(seq, k) == SubSeq(seq, 1, k - 1) \o SubSeq(seq, k + 1, Len(seq))

AddReturned == last.op = "add_to_document_set" /\ last.ret = "ok"

\* get_sorted_items() is in non-decreasing order of the order values, and
\* sorting its result again gives the same sequence
SortedAndIdempotent(items) ==
    /\ NonDecreasing(get_sorted_items(items))
    /\ get_sorted_items(get_sorted_items(items)) = get_sorted_items(items)

\* C20: around every call that adds an item with add_item, get_sorted_items()
\* is in non-decreasing order of the order values and idempotent, and the
\* items that were in the set are in get_sorted_items() in the same relative
\* position and with the same order values as before the call.
C20_SortedItemsStable ==
    [][ AddReturned' =>
          /\ SortedAndIdempotent(document_set.items)
          /\ SortedAndIdempotent(document_set'.items)
          /\ \E k \in 1..Len(document_set'.items) :
                /\ get_sorted_items(document_set'.items)[k].document_id = last'.doc
                /\ Without(get_sorted_items(document_set'.items), k)
                      = get_sorted_items(document_set.items) ]_vars

\* C20 witness: an item was added to a set whose length was the order of one
\* of its items, so add_item had to move to the next free order.
C20_Witness ==
    /\ AddReturned
    /\ \E k \in 1..Len(Items) :
          /\ Items[k].document_id = last.doc
          /\ Items[k].order > Len(Items) - 1

\* C21: get_primary_item() returns an item with role 'primary' if there is
\* one, otherwise an item with the smallest order value if the set is not
\* empty, otherwise nothing.
C21_GetPrimaryItem ==
    LET p == get_primary_index(Items) IN
    IF PrimaryIndexes # {} THEN p \in PrimaryIndexes
    ELSE IF Len(Items) > 0
    THEN p \in 1..Len(Items) /\ \A j \in 1..Len(Items) : Items[p].order <= Items[j].order
    ELSE p = 0

\* C21 witness: a set of several items none of which has role 'primary',
\* left by remove_from_document_set, so get_primary_item() falls back.
C21_Witness ==
    /\ last.op = "remove_from_document_set" /\ last.ret = "ok"
    /\ Len(Items) >= 2
    /\ PrimaryIndexes = {}
    /\ Items[1].order < Items[2].order

\* C22: in a session that was migrated, once a tool has returned, the legacy
\* fields are those of the set's primary item whenever there is one:
\* tender_document_id is its document id and tender_tree its tree.
C22_LegacyFieldsSynchronized ==
    (document_set.present /\ document_set.name = MigratedSetName /\ RolePrimary # 0) =>
        /\ tender_document_id = Items[RolePrimary].document_id
        /\ tender_tree = Items[RolePrimary].tree

\* C24: no two items of the DocumentSet have the same document_id, and after
\* remove_from_document_set(d) no item with id d is in the set.
C24_DocumentIdsUnique ==
    /\ \A i, j \in 1..Len(Items) : Items[i].document_id = Items[j].document_id => i = j
    /\ (last.op = "remove_from_document_set" /\ last.ret = "ok") =>
          ~Contains(Items, last.doc)

\* C29: a tool answers that there is no active document set only when
\* is_using_document_set() is false.
C29_ActiveSetTestAgrees ==
    [][ last'.ret = "err_no_set" => ~is_using_document_set ]_vars

\* item i is the one merge() made the root of: its id, title and children
\* open the merged tree
IsMergedRoot(i) ==
    /\ HasTree(Items[i])
    /\ Merged.id = Items[i].tree.id
    /\ Merged.title = Items[i].tree.title
    /\ Len(Merged.children) >= Len(Items[i].tree.children)
    /\ SubSeq(Merged.children, 1, Len(Items[i].tree.children)) = Items[i].tree.children

\* item i has a namespaced subtree under the 'auxiliary_docs' branch
IsUnderAuxBranch(i) ==
    /\ HasTree(Items[i])
    /\ \E b \in AuxBranchPositions :
          \E k \in 1..Len(Merged.children[b].children) :
              Merged.children[b].children[k].id
                  = NamespacedId(Items[i].document_id, Items[i].tree.id)

\* C30: no item's tree is both the root of the merged tree and a namespaced
\* subtree under 'auxiliary_docs' (for sets whose document ids are distinct).
C30_TreeAtMostOnce ==
    (MergedReturned /\ DistinctDocIds) =>
        \A i \in 1..Len(Items) : ~(IsMergedRoot(i) /\ IsUnderAuxBranch(i))

\* C23: a call of create_document_set, add_to_document_set or
\* refresh_document_tree in which get_document_tree failed returns an error
\* and leaves document_set (items, trees, roles, orders) and
\* document_set_id as they were.
C23_FetchFailureLeavesSet ==
    [][ last'.ret \in {"err_fetch", "err_fetch_aux"} =>
          /\ document_set' = document_set
          /\ document_set_id' = document_set_id ]_vars

\* C23 witness: a fetch failed in a call made while the set held as many
\* items as it can, all of them with a tree.
C23_Witness ==
    /\ last.ret = "err_fetch"
    /\ Len(Items) = MaxItems
    /\ \A i \in 1..Len(Items) : HasTree(Items[i])

ResolveReturned == last.op = "resolve_node"

\* item j is the last item of the set whose tree has a node with this id
LastWithId(j, id) ==
    /\ HasTree(Items[j])
    /\ \E k \in 1..Len(TreeNodes(Items[j].tree)) : TreeNodes(Items[j].tree)[k].id = id
    /\ \A h \in (j + 1)..Len(Items) :
          HasTree(Items[h]) =>
              \A k \in 1..Len(TreeNodes(Items[h].tree)) : TreeNodes(Items[h].tree)[k].id # id

\* C25: when two items both have a node with the local id i, resolve_node(i)
\* returns the document id and the node of the later item, and the earlier
\* item's node is not reachable through the index: not by its namespaced
\* identifier and not among the nodes of its document.
C25_LaterDocumentWins ==
    \A i, j \in 1..Len(Items) :
        (i < j /\ HasTree(Items[i]) /\ HasTree(Items[j])) =>
            \A a \in 1..Len(TreeNodes(Items[i].tree)), b \in 1..Len(TreeNodes(Items[j].tree)) :
                LET ni == TreeNodes(Items[i].tree)[a]
                    nj == TreeNodes(Items[j].tree)[b]
                IN (ni.id = nj.id /\ LastWithId(j, nj.id)) =>
                      /\ (ResolveReturned /\ last.doc = ni.id) =>
                            out.value[1] = Found(Items[j].document_id, nj)
                      /\ (ResolveReturned
                          /\ last.doc = NamespacedId(Items[i].document_id, ni.id)) =>
                            out.value[1] # Found(Items[i].document_id, ni)
                      /\ \A k \in 1..Len(get_document_nodes(Items, Items[i].document_id)) :
                            get_document_nodes(Items, Items[i].document_id)[k] # ni

\* C25 witness: resolve_node('c1') on a set that holds document t ahead of
\* document a, both with a node c1, answered with document a.
C25_Witness ==
    /\ ResolveReturned
    /\ last.doc = <<"c", "1">>
    /\ IndexOfDocId(Items, D_t) # 0 /\ IndexOfDocId(Items, D_t) < IndexOfDocId(Items, D_a)
    /\ out.value[1].found /\ out.value[1].doc_id = D_a

\* the identifier is doc_{X}_{Y} for a document X and a local id Y that the
\* index maps to X
NamespacedHit(id, X, Y) ==
    /\ id = S_doc_ \o X \o <<Underscore>> \o Y
    /\ InIndex(_build_index(Items), Y)
    /\ IndexAt(_build_index(Items), Y).doc_id = X

\* C26: if resolve_node(id) returns (d, n), n is a node of the tree of an item
\* with document id d; and for an id that is not a key of the index a result
\* is returned only if the id is doc_{X}_{Y} with the index mapping Y to X,
\* and then d = X and n has the local id Y.
C26_ResolveSound ==
    (ResolveReturned /\ out.value[1].found) =>
        LET r == out.value[1] IN
        /\ \E i \in 1..Len(Items) :
              /\ Items[i].document_id = r.doc_id
              /\ HasTree(Items[i])
              /\ \E k \in 1..Len(TreeNodes(Items[i].tree)) : TreeNodes(Items[i].tree)[k] = r.node
        /\ ~InIndex(_build_index(Items), last.doc) =>
              \E c \in 1..Len(last.doc) :
                  /\ c > Len(S_doc_)
                  /\ NamespacedHit(last.doc, SubSeq(last.doc, Len(S_doc_) + 1, c - 1),
                                   SubSeq(last.doc, c + 1, Len(last.doc)))
                  /\ r.doc_id = SubSeq(last.doc, Len(S_doc_) + 1, c - 1)
                  /\ r.node.id = SubSeq(last.doc, c + 1, Len(last.doc))

\* C26 witness: an identifier that is not a key of the index was resolved
\* through its doc_{X}_{Y} shape.
C26_Witness ==
    /\ ResolveReturned
    /\ out.value[1].found
    /\ ~InIndex(_build_index(Items), last.doc)

\* the lower-cased titles on the nodes of the tree of the item with this id
TreeTitles(doc_id) ==
    LET item == Items[IndexOfDocId(Items, doc_id)] IN
    IF HasTree(item)
    THEN {Lower(TreeNodes(item.tree)[k].title) : k \in 1..Len(TreeNodes(item.tree))}
    ELSE {}

\* C27: without a section_pattern compare_documents(A, B) reports as 'common'
\* the lower-cased titles that are on a node of A's tree and on a node of
\* B's tree, and as 'only in A' those of A's tree that are not in B's.
C27_CompareAllTitles ==
    (CompareReturned /\ last.section_pattern = EmptyStr) =>
        /\ out.value[1].common = TreeTitles(last.doc[1]) \cap TreeTitles(last.doc[2])
        /\ out.value[1].only_in_1 = TreeTitles(last.doc[1]) \ TreeTitles(last.doc[2])

\* a query_document_set call is in its loop or has returned its results
InQuery == last.op = "query_document_set" /\ last.ret \in {"running", "ok"}

\* C28: query_document_set calls chat_with_document once per target, one call
\* at a time and in the order of the target list, and the texts in 'results'
\* follow the target list whichever calls fail.
C28_SequentialFanOut ==
    InQuery =>
        /\ Cardinality(last.awaiting) <= 1
        /\ \A c \in 1..Len(last.calls) : last.calls[c] = c
        /\ Len(last.calls) <= Len(last.targets)
        /\ Len(out.value) = Len(last.calls) - Cardinality(last.awaiting)
        /\ \A k \in 1..Len(out.value) :
              out.value[k] = QueryResults(last.targets, last.failing)[k]
        /\ last.ret = "ok" =>
              /\ Len(last.calls) = Len(last.targets)
              /\ out.value = QueryResults(last.targets, last.failing)

\* C28 witness: a query over at least two targets has returned, some of its
\* calls having failed and some not.
C28_Witness ==
    /\ InQuery
    /\ last.ret = "ok"
    /\ Len(last.targets) >= 2
    /\ last.failing # {}
    /\ last.failing # 1..Len(last.targets)
    /\ Len(last.calls) = Len(last.targets)

====
